---- MODULE Spec2Model ----
(***************************************************************************)
(* Drowsiness detection: the webcam inference loops of test_inference.py   *)
(* and test_tflite_inference.py.  Each loop reduces the raw detections of  *)
(* a frame to the one of highest confidence, keeps the last five of them   *)
(* in a deque, derives a state by majority vote every fifth frame and      *)
(* prints it when it changed or on every thirtieth frame.                  *)
(*                                                                         *)
(* Confidences are hundredths (90 stands for 0.90); an average is kept as  *)
(* the exact pair <<sum, count>>, the display rounding of the f-string is  *)
(* not modelled.                                                           *)
(***************************************************************************)
EXTENDS Integers, Sequences, FiniteSets, TLC

VARIABLES
    script,               \* which program runs: "test_inference" or "test_tflite_inference"
    pc,                   \* "loop" while the while-loop runs, "done" after a break
    inference_count,      \* frames processed so far
    detection_history,    \* deque(maxlen=5) of <<class_name, confidence>>
    last_reported_state,  \* None, or the state of the last state report
    current_detection,    \* the reduced detection of the latest frame, or None
    report,               \* what the latest frame printed
    recent,               \* observer: detections of the current run of non-empty frames (last 5)
    on_stream,            \* observer: the frames so far are the 30-frame scenario stream
    frames,               \* observer: iterations of the loop that attempted a detection
    detected,             \* observer: some frame so far carried a detection
    last_emitted,         \* observer: state of the latest report of any kind (NO_DETECTION for "no detections")
    last_state_emitted,   \* observer: state of the latest state report
    ran,                  \* the N of "Ran N inferences", -1 before it is printed
    owed,                 \* observer: states entered since the last heartbeat and not reported yet
    tf_inference_count,   \* the pair of loops: inference_count of test_tflite_inference.py
    tf_detection_history, \* the pair of loops: its detection_history
    tf_last_reported_state, \* the pair of loops: its last_reported_state
    tf_report,            \* the pair of loops: what its latest frame printed
    cli_pc,               \* y2m.cli.main: the step about to run, "done" after return, "raised" after an uncaught exception
    cli_args,             \* y2m.cli.main: the parsed arguments and the weights file they name
    tflite_path,          \* y2m.cli.main: tflite_path, NoPath when None
    int8_path,            \* y2m.cli.main: int8_path, NoPath when None
    metadata,             \* the metadata.json written, NoMetadata before
    exit_code,            \* the value main returned, -1 before it returns
    steps,                \* observer: the steps of main run so far, in order
    failures,             \* observer: the steps of main that failed
    fn_pc,                \* function-level checks: "idle", "ready" before the call, "called" after
    fn_in,                \* function-level checks: the argument
    fn_out                \* function-level checks: the result

loop_vars == <<script, pc, inference_count, detection_history, last_reported_state,
               current_detection, report, recent, on_stream,
               frames, detected, last_emitted, last_state_emitted, ran>>
fn_vars == <<fn_pc, fn_in, fn_out>>
pair_vars == <<tf_inference_count, tf_detection_history, tf_last_reported_state, tf_report>>
cli_vars == <<cli_pc, cli_args, tflite_path, int8_path, metadata, exit_code, steps, failures>>
vars == <<loop_vars, owed, fn_vars, pair_vars, cli_vars>>

-----------------------------------------------------------------------------
(* Program constants *)

\* deque(maxlen=5)
maxlen == 5
\* inference_count % 5 == 0
StateEvery == 5
\* inference_count % 30 == 0
ReportEvery == 30

(* Bounds of the model *)

\* frames processed in one run of the loop
MaxFrames == 31
\* raw detections of one frame in the reducer's own check
MaxBoxes == 3

\* current_detection = None: no detection (a detection is a pair)
None == <<>>
\* last_reported_state = None: nothing reported yet
NoState == "None"
Scripts == {"test_inference", "test_tflite_inference"}

\* the detections a frame of the loop can carry
LoopDets == {<<"drowsy", 90>>, <<"notdrowsy", 90>>, <<"class_2", 50>>}
\* test_tflite_inference.py: self.class_names = ['drowsy', 'notdrowsy']
class_names == <<"drowsy", "notdrowsy">>

\* class ids of the detector's output in the function-level checks: 0..MaxClassId
MaxClassId == 2

\* self.class_names[class_id] if class_id < len(self.class_names) else f"class_{class_id}"
ClassName(class_id) ==
    IF class_id < Len(class_names) THEN class_names[class_id + 1]
    ELSE "class_" \o ToString(class_id)

\* the detections of the function-level checks
FnLabels == {ClassName(class_id) : class_id \in 0..MaxClassId}
FnConfs == {50, 90}
FnDets == FnLabels \X FnConfs

SeqsUpTo(S, n) == UNION {[1..k -> S] : k \in 0..n}

\* the raw detections of one frame of the loop: none, one or two
FrameInputs ==
    {<<>>} \cup {<<d>> : d \in LoopDets} \cup {<<d, e>> : d \in LoopDets, e \in LoopDets}
\* the same for the runs that also keep the owed observer
TwoDets == {<<"drowsy", 90>>, <<"notdrowsy", 90>>}
FrameInputsOwed ==
    {<<>>} \cup {<<d>> : d \in TwoDets} \cup {<<d, e>> : d \in TwoDets, e \in TwoDets}
\* the windows of the classification check: every window of 1..maxlen detections and
\* the two worked examples
Example1 == <<(<<"drowsy", 90>>), (<<"drowsy", 80>>), (<<"notdrowsy", 70>>),
              (<<"drowsy", 60>>), (<<"notdrowsy", 95>>)>>
Example2 == <<(<<"drowsy", 50>>), (<<"notdrowsy", 50>>)>>
Windows == (SeqsUpTo(FnDets, maxlen) \ {<<>>}) \cup {Example1, Example2}

-----------------------------------------------------------------------------
(* test_inference.py *)

\* mutant: >= for >, a later detection of equal confidence replaces the kept one
RECURSIVE HighestFromLast(_, _, _)
HighestFromLast(boxes, i, cur) ==
    IF i > Len(boxes) THEN cur
    ELSE HighestFromLast(boxes, i + 1,
                         IF cur = None \/ boxes[i][2] >= cur[2] THEN boxes[i] ELSE cur)

\* for i in range(len(boxes.data)): if current_detection is None or conf > current_detection[1]
RECURSIVE HighestFrom(_, _, _)
HighestFrom(boxes, i, cur) ==
    IF i > Len(boxes) THEN cur
    ELSE HighestFrom(boxes, i + 1,
                     IF cur = None \/ boxes[i][2] > cur[2] THEN boxes[i] ELSE cur)

HighestConfidence(boxes) == HighestFrom(boxes, 1, None)

\* mutant: a deque without maxlen
DequeAppendUnbounded(dq, x) == Append(dq, x)

\* deque.append with maxlen: a full deque drops its leftmost item
DequeAppend(dq, x) ==
    IF Len(dq) >= maxlen THEN Append(Tail(dq), x) ELSE Append(dq, x)

\* mutant: a frame without detection ages the window
AddToHistoryAging(history, det) ==
    IF det # None
    THEN (IF Len(history) >= 5 THEN Append(Tail(history), det) ELSE Append(history, det))
    ELSE (IF history = <<>> THEN history ELSE Tail(history))

\* if current_detection: detection_history.append(current_detection)
AddToHistory(history, det) ==
    IF det # None THEN DequeAppend(history, det) ELSE history

\* mutant: everything that is not drowsy counts as notdrowsy
RECURSIVE CountClassRest(_, _)
CountClassRest(history, name) ==
    IF history = <<>> THEN 0
    ELSE (IF Head(history)[1] = name \/ (name = "notdrowsy" /\ Head(history)[1] # "drowsy")
          THEN 1 ELSE 0) + CountClassRest(Tail(history), name)

RECURSIVE CountClass(_, _)
CountClass(history, name) ==
    IF history = <<>> THEN 0
    ELSE (IF Head(history)[1] = name THEN 1 ELSE 0) + CountClass(Tail(history), name)

RECURSIVE SumConf(_)
SumConf(history) ==
    IF history = <<>> THEN 0 ELSE Head(history)[2] + SumConf(Tail(history))

\* mutant: >= for >, a tie counts as DROWSY
MajorityStateTieDrowsy(drowsy_count, notdrowsy_count) ==
    IF drowsy_count >= notdrowsy_count THEN "DROWSY"
    ELSE IF notdrowsy_count > drowsy_count THEN "ALERT"
    ELSE "UNCERTAIN"

\* if drowsy_count > notdrowsy_count ... elif notdrowsy_count > drowsy_count ... else
MajorityState(drowsy_count, notdrowsy_count) ==
    IF drowsy_count > notdrowsy_count THEN "DROWSY"
    ELSE IF notdrowsy_count > drowsy_count THEN "ALERT"
    ELSE "UNCERTAIN"

\* drowsy_count, notdrowsy_count, avg_conf and current_state of a non-empty history
RollingState(history) ==
    LET drowsy_count == CountClass(history, "drowsy")
        notdrowsy_count == CountClass(history, "notdrowsy")
    IN  [drowsy_count |-> drowsy_count,
         notdrowsy_count |-> notdrowsy_count,
         avg_conf |-> <<SumConf(history), Len(history)>>,
         current_state |-> MajorityState(drowsy_count, notdrowsy_count)]

\* mutant: the window is not asked to be non-empty
StateDueOnFive(history, count) == count % 5 = 0

\* mutant: the state is evaluated on every frame
StateDueEveryFrame(history, count) == Len(history) >= 1

\* if len(detection_history) >= 1 and inference_count % 5 == 0
StateDue(history, count) == Len(history) >= 1 /\ count % StateEvery = 0

\* mutant: and for or
ReportDueBoth(current_state, last, count) ==
    current_state # last /\ count % 30 = 0

\* mutant: no heartbeat, only changes are reported
ReportDueChangeOnly(current_state, last, count) == current_state # last

\* mutant: every evaluation is reported
ReportDueAlways(current_state, last, count) == TRUE

\* if current_state != last_reported_state or inference_count % 30 == 0
ReportDue(current_state, last, count) ==
    current_state # last \/ count % ReportEvery = 0

\* mutant: the "no detections" line on the cadence of 5
NoDetectionDueEveryFive(history, count) == Len(history) = 0 /\ count % 5 = 0

\* elif len(detection_history) == 0 and inference_count % 30 == 0
NoDetectionDue(history, count) == Len(history) = 0 /\ count % ReportEvery = 0

NoReport ==
    [kind |-> "none", frame |-> 0, state |-> NoState,
     drowsy_count |-> 0, notdrowsy_count |-> 0, avg_conf |-> <<0, 0>>]

StateReport(count, r) ==
    [kind |-> "state", frame |-> count, state |-> r.current_state,
     drowsy_count |-> r.drowsy_count, notdrowsy_count |-> r.notdrowsy_count,
     avg_conf |-> r.avg_conf]

NoDetectionReport(count) ==
    [kind |-> "nodetection", frame |-> count, state |-> NoState,
     drowsy_count |-> 0, notdrowsy_count |-> 0, avg_conf |-> <<0, 0>>]

\* mutant: a state report that forgets to set last_reported_state
ReportingKeepLast(history, count, last) ==
    IF Len(history) >= 1 /\ count % 5 = 0
    THEN LET r == RollingState(history) IN
         IF r.current_state # last \/ count % 30 = 0
         THEN [report |-> StateReport(count, r), last |-> last]
         ELSE [report |-> NoReport, last |-> last]
    ELSE IF Len(history) = 0 /\ count % 30 = 0
    THEN [report |-> NoDetectionReport(count), last |-> last]
    ELSE [report |-> NoReport, last |-> last]

\* mutant: the "no detections" line is remembered as a reported state
ReportingNoDetectionState(history, count, last) ==
    IF Len(history) >= 1 /\ count % 5 = 0
    THEN LET r == RollingState(history) IN
         IF r.current_state # last \/ count % 30 = 0
         THEN [report |-> StateReport(count, r), last |-> r.current_state]
         ELSE [report |-> NoReport, last |-> last]
    ELSE IF Len(history) = 0 /\ count % 30 = 0
    THEN [report |-> NoDetectionReport(count), last |-> "NO_DETECTION"]
    ELSE [report |-> NoReport, last |-> last]

\* the printing part of one iteration: the line printed and the new last_reported_state
Reporting(history, count, last) ==
    IF StateDue(history, count)
    THEN LET r == RollingState(history) IN
         IF ReportDue(r.current_state, last, count)
         THEN [report |-> StateReport(count, r), last |-> r.current_state]
         ELSE [report |-> NoReport, last |-> last]
    ELSE IF NoDetectionDue(history, count)
    THEN [report |-> NoDetectionReport(count), last |-> last]
    ELSE [report |-> NoReport, last |-> last]

-----------------------------------------------------------------------------
(* test_tflite_inference.py *)

\* mutant: >= for >, the last detection of greatest confidence is kept
RECURSIVE HighestOfDetectionsLast(_, _)
HighestOfDetectionsLast(detections, cur) ==
    IF detections = <<>> THEN cur
    ELSE HighestOfDetectionsLast(Tail(detections),
             IF cur = None \/ Head(detections)[2] >= cur[2] THEN Head(detections) ELSE cur)

\* for det in detections: if current_detection is None or confidence > current_detection[1]
RECURSIVE HighestOfDetections(_, _)
HighestOfDetections(detections, cur) ==
    IF detections = <<>> THEN cur
    ELSE HighestOfDetections(Tail(detections),
             IF cur = None \/ Head(detections)[2] > cur[2] THEN Head(detections) ELSE cur)

HighestConfidenceTFLite(detections) == HighestOfDetections(detections, None)

\* mutant: a frame without detection clears the window
AddToHistoryTFLiteClear(history, det) ==
    IF det # None
    THEN (IF Len(history) >= 5 THEN Append(Tail(history), det) ELSE Append(history, det))
    ELSE <<>>

AddToHistoryTFLite(history, det) ==
    IF det # None
    THEN (IF Len(history) >= maxlen THEN Append(Tail(history), det) ELSE Append(history, det))
    ELSE history

RollingStateTFLite(history) ==
    LET drowsy_count == Cardinality({i \in 1..Len(history) : history[i][1] = "drowsy"})
        notdrowsy_count == Cardinality({i \in 1..Len(history) : history[i][1] = "notdrowsy"})
        current_state == IF drowsy_count > notdrowsy_count THEN "DROWSY"
                         ELSE IF notdrowsy_count > drowsy_count THEN "ALERT"
                         ELSE "UNCERTAIN"
    IN  [drowsy_count |-> drowsy_count,
         notdrowsy_count |-> notdrowsy_count,
         avg_conf |-> <<SumConf(history), Len(history)>>,
         current_state |-> current_state]

ReportingTFLite(history, count, last) ==
    IF Len(history) >= 1 /\ count % StateEvery = 0
    THEN LET r == RollingStateTFLite(history) IN
         IF r.current_state # last \/ count % ReportEvery = 0
         THEN [report |-> StateReport(count, r), last |-> r.current_state]
         ELSE [report |-> NoReport, last |-> last]
    ELSE IF Len(history) = 0 /\ count % ReportEvery = 0
    THEN [report |-> NoDetectionReport(count), last |-> last]
    ELSE [report |-> NoReport, last |-> last]

-----------------------------------------------------------------------------
(* Observers *)

\* the 30-frame stream: frames 1-15 (drowsy, 0.9), frames 16-30 (notdrowsy, 0.9)
StreamFrame(n) == IF n <= 15 THEN <<"drowsy", 90>> ELSE <<"notdrowsy", 90>>

RecentAfter(det) ==
    IF det = None THEN <<>>
    ELSE IF Len(recent) >= 5 THEN Append(Tail(recent), det) ELSE Append(recent, det)

OnStreamAfter(count, det) == on_stream /\ count <= 30 /\ det = StreamFrame(count)

\* the state the window stands for: NO_DETECTION when empty, else the majority state
DerivedState(history) ==
    LET d == Cardinality({i \in 1..Len(history) : history[i][1] = "drowsy"})
        a == Cardinality({i \in 1..Len(history) : history[i][1] = "notdrowsy"})
    IN  IF Len(history) = 0 THEN "NO_DETECTION"
        ELSE IF d > a THEN "DROWSY"
        ELSE IF a > d THEN "ALERT"
        ELSE "UNCERTAIN"

ReportedState(rep) ==
    IF rep.kind = "state" THEN {rep.state}
    ELSE IF rep.kind = "nodetection" THEN {"NO_DETECTION"}
    ELSE {}

-----------------------------------------------------------------------------
(* The loop *)

LoopInit ==
    /\ script \in Scripts
    /\ pc = "loop"
    /\ inference_count = 0
    /\ detection_history = <<>>
    /\ last_reported_state = NoState
    /\ current_detection = None
    /\ report = NoReport
    /\ recent = <<>>
    /\ on_stream = TRUE
    /\ frames = 0
    /\ detected = FALSE
    /\ last_emitted = NoState
    /\ last_state_emitted = NoState
    /\ ran = -1

\* mutant: the increment is missing
NextCountStuck(count) == count

\* inference_count += 1
NextCount(count) == count + 1

\* print(f"[SUCCESS] Ran {inference_count} inferences successfully!")
RanTotal(count) == count

EmittedAfter(rep, last) ==
    IF rep.kind = "state" THEN rep.state
    ELSE IF rep.kind = "nodetection" THEN "NO_DETECTION"
    ELSE last

StateEmittedAfter(rep, last) == IF rep.kind = "state" THEN rep.state ELSE last

\* one iteration of the while-loop of a script: det is the frame's reduced detection,
\* out the result of its reporting part, quit whether 'q' was pressed
Iteration(det, history, out, quit) ==
    /\ inference_count' = NextCount(inference_count)
    /\ current_detection' = det
    /\ detection_history' = history
    /\ report' = out.report
    /\ last_reported_state' = out.last
    /\ pc' = IF quit THEN "done" ELSE "loop"
    /\ recent' = RecentAfter(det)
    /\ on_stream' = OnStreamAfter(frames + 1, det)
    /\ frames' = frames + 1
    /\ detected' = (detected \/ det # None)
    /\ last_emitted' = EmittedAfter(out.report, last_emitted)
    /\ last_state_emitted' = StateEmittedAfter(out.report, last_state_emitted)
    /\ ran' = IF quit THEN RanTotal(NextCount(inference_count)) ELSE ran
    /\ UNCHANGED script

\* test_inference.py, test_webcam: one iteration
test_webcam(boxes, quit) ==
    /\ script = "test_inference"
    /\ pc = "loop"
    /\ inference_count < MaxFrames
    /\ LET det == HighestConfidence(boxes)
           history == AddToHistory(detection_history, det)
       IN  Iteration(det, history,
                     Reporting(history, NextCount(inference_count), last_reported_state), quit)

\* test_tflite_inference.py, test_webcam: one iteration
test_webcam_tflite(detections, quit) ==
    /\ script = "test_tflite_inference"
    /\ pc = "loop"
    /\ inference_count < MaxFrames
    /\ LET det == HighestConfidenceTFLite(detections)
           history == AddToHistoryTFLite(detection_history, det)
       IN  Iteration(det, history,
                     ReportingTFLite(history, NextCount(inference_count), last_reported_state), quit)

\* ret is False: "Failed to read from webcam", break
ReadFailed ==
    /\ pc = "loop"
    /\ pc' = "done"
    /\ ran' = RanTotal(inference_count)
    /\ UNCHANGED <<script, inference_count, detection_history, last_reported_state,
                   current_detection, report, recent, on_stream,
                   frames, detected, last_emitted, last_state_emitted>>

FnIdle == fn_pc = "idle" /\ fn_in = <<>> /\ fn_out = <<>>

PairIdle ==
    /\ tf_inference_count = 0
    /\ tf_detection_history = <<>>
    /\ tf_last_reported_state = NoState
    /\ tf_report = NoReport

NoPath == "None"
\* no metadata.json written yet
NoMetadata ==
    [written |-> FALSE, model_name |-> "", quantized |-> FALSE, float32 |-> NoPath,
     int8 |-> NoPath, has_class_names |-> FALSE, class_names |-> <<>>, num_classes |-> 0]

CliIdle ==
    /\ cli_pc = "idle"
    /\ cli_args = <<>>
    /\ tflite_path = NoPath
    /\ int8_path = NoPath
    /\ metadata = NoMetadata
    /\ exit_code = -1
    /\ steps = <<>>
    /\ failures = {}

Init == LoopInit /\ owed = {} /\ FnIdle /\ PairIdle /\ CliIdle

Frame(inputs) ==
    \E boxes \in inputs, quit \in BOOLEAN :
        \/ test_webcam(boxes, quit)
        \/ test_webcam_tflite(boxes, quit)

Next ==
    \/ Frame(FrameInputs) /\ UNCHANGED <<owed, fn_vars, pair_vars, cli_vars>>
    \/ ReadFailed /\ UNCHANGED <<owed, fn_vars, pair_vars, cli_vars>>

Spec == Init /\ [][Next]_vars

-----------------------------------------------------------------------------
(* The loop with the owed observer: a state entered by the window is owed a report *)
(* until a report carries it; what is owed starts afresh after a multiple of 30.   *)

OwedAfter ==
    LET base == IF inference_count % 30 = 0 THEN {} ELSE owed
        entered == IF DerivedState(detection_history') # DerivedState(detection_history)
                   THEN {DerivedState(detection_history')} ELSE {}
    IN  (base \cup entered) \ ReportedState(report')

NextOwed ==
    \/ Frame(FrameInputsOwed) /\ owed' = OwedAfter
         /\ UNCHANGED <<fn_vars, pair_vars, cli_vars>>
    \/ ReadFailed /\ UNCHANGED <<owed, fn_vars, pair_vars, cli_vars>>

SpecOwed == Init /\ [][NextOwed]_vars

-----------------------------------------------------------------------------
(* The pair of loops: test_webcam of test_inference.py on the loop variables and   *)
(* test_webcam of test_tflite_inference.py on the tf_ variables, fed the same raw  *)
(* detections frame by frame and stopped together.                                 *)

InitPair ==
    /\ LoopInit /\ script = "test_inference"
    /\ owed = {} /\ FnIdle /\ PairIdle /\ CliIdle

\* test_tflite_inference.py, test_webcam: one iteration on the tf_ variables
test_webcam_tflite_pair(detections) ==
    LET det == HighestConfidenceTFLite(detections)
        history == AddToHistoryTFLite(tf_detection_history, det)
        out == ReportingTFLite(history, NextCount(tf_inference_count),
                               tf_last_reported_state)
    IN  /\ tf_inference_count' = NextCount(tf_inference_count)
        /\ tf_detection_history' = history
        /\ tf_last_reported_state' = out.last
        /\ tf_report' = out.report

FramePair ==
    \E boxes \in FrameInputs, quit \in BOOLEAN :
        /\ test_webcam(boxes, quit)
        /\ test_webcam_tflite_pair(boxes)
        /\ UNCHANGED <<owed, fn_vars, cli_vars>>

NextPair ==
    \/ FramePair
    \/ ReadFailed /\ UNCHANGED <<owed, fn_vars, pair_vars, cli_vars>>

SpecPair == InitPair /\ [][NextPair]_vars

-----------------------------------------------------------------------------
(* The reducer alone: any list of raw detections, reduced once *)

InitReduce ==
    /\ LoopInit /\ owed = {} /\ PairIdle /\ CliIdle
    /\ fn_pc = "ready" /\ fn_in \in SeqsUpTo(FnDets, MaxBoxes) /\ fn_out = <<>>

ReduceBoxes ==
    /\ fn_pc = "ready" /\ script = "test_inference"
    /\ fn_out' = HighestConfidence(fn_in)
    /\ fn_pc' = "called"
    /\ UNCHANGED <<loop_vars, owed, fn_in, pair_vars, cli_vars>>

ReduceDetections ==
    /\ fn_pc = "ready" /\ script = "test_tflite_inference"
    /\ fn_out' = HighestConfidenceTFLite(fn_in)
    /\ fn_pc' = "called"
    /\ UNCHANGED <<loop_vars, owed, fn_in, pair_vars, cli_vars>>

NextReduce == ReduceBoxes \/ ReduceDetections

SpecReduce == InitReduce /\ [][NextReduce]_vars

-----------------------------------------------------------------------------
(* The classification alone: any non-empty window, classified once *)

InitClassify ==
    /\ LoopInit /\ owed = {} /\ PairIdle /\ CliIdle
    /\ fn_pc = "ready" /\ fn_in \in Windows /\ fn_out = <<>>

Classify ==
    /\ fn_pc = "ready" /\ script = "test_inference"
    /\ Len(fn_in) >= 1
    /\ fn_out' = RollingState(fn_in)
    /\ fn_pc' = "called"
    /\ UNCHANGED <<loop_vars, owed, fn_in, pair_vars, cli_vars>>

ClassifyTFLite ==
    /\ fn_pc = "ready" /\ script = "test_tflite_inference"
    /\ Len(fn_in) >= 1
    /\ fn_out' = RollingStateTFLite(fn_in)
    /\ fn_pc' = "called"
    /\ UNCHANGED <<loop_vars, owed, fn_in, pair_vars, cli_vars>>

NextClassify == Classify \/ ClassifyTFLite

SpecClassify == InitClassify /\ [][NextClassify]_vars

-----------------------------------------------------------------------------
(* y2m/utils.py: validate_model_path *)

ERR_FILE_NOT_FOUND == "ERR_FILE_NOT_FOUND"
ERR_INVALID_EXTENSION == "ERR_INVALID_EXTENSION"
ERR_FILE_EMPTY == "ERR_FILE_EMPTY"
ERR_READ_PERMISSION == "ERR_READ_PERMISSION"
\* the None of (True, None)
NoCode == "None"

\* the suffixes of the weights paths tried
Suffixes == {".pt", ".PT", ".Pt", ".pT", ".pth", ".onnx", ".tflite", ""}
\* st_size of the files tried
Sizes == {0, 1, 6291456}

\* str.lower() on the suffixes tried
Lower(suffix) ==
    CASE suffix \in {".PT", ".Pt", ".pT"} -> ".pt"
      [] OTHER -> suffix

\* what validate_model_path can find at a path: a missing file has no size and
\* cannot be read
Files ==
    {[exists |-> FALSE, suffix |-> x, size |-> 0, readable |-> FALSE] : x \in Suffixes}
    \cup [exists : {TRUE}, suffix : Suffixes, size : Sizes, readable : BOOLEAN]

\* mutant: the suffix is compared as written
validate_model_path_cased(file) ==
    IF ~file.exists THEN <<FALSE, ERR_FILE_NOT_FOUND>>
    ELSE IF file.suffix # ".pt" THEN <<FALSE, ERR_INVALID_EXTENSION>>
    ELSE IF file.size = 0 THEN <<FALSE, ERR_FILE_EMPTY>>
    ELSE IF ~file.readable THEN <<FALSE, ERR_READ_PERMISSION>>
    ELSE <<TRUE, NoCode>>

validate_model_path(file) ==
    IF ~file.exists THEN <<FALSE, ERR_FILE_NOT_FOUND>>
    ELSE IF Lower(file.suffix) # ".pt" THEN <<FALSE, ERR_INVALID_EXTENSION>>
    ELSE IF file.size = 0 THEN <<FALSE, ERR_FILE_EMPTY>>
    ELSE IF ~file.readable THEN <<FALSE, ERR_READ_PERMISSION>>
    ELSE <<TRUE, NoCode>>

InitValidate ==
    /\ LoopInit /\ script = "test_inference" /\ owed = {} /\ PairIdle /\ CliIdle
    /\ fn_pc = "ready" /\ fn_in \in Files /\ fn_out = <<>>

Validate ==
    /\ fn_pc = "ready"
    /\ fn_out' = validate_model_path(fn_in)
    /\ fn_pc' = "called"
    /\ UNCHANGED <<loop_vars, owed, fn_in, pair_vars, cli_vars>>

SpecValidate == InitValidate /\ [][Validate]_vars

-----------------------------------------------------------------------------
(* y2m/optimizer.py: ModelOptimizer.quantize_int8 *)

\* the stems of self.tflite_path tried
TfliteStems == {"best_float32", "best"}

\* str.replace('_float32', '') on the stems tried
StripFloat32(stem) ==
    CASE stem = "best_float32" -> "best"
      [] OTHER -> stem

\* what the steps of quantize_int8 meet: whether tensorflow imports, what
\* _find_saved_model_dir does, whether from_saved_model, reading the file, the
\* interpreter and the copy succeed
QuantizeInputs ==
    [tensorflow : BOOLEAN, find : {"raises", "none", "found"}, from_saved_model : BOOLEAN,
     stem : TfliteStems, read : BOOLEAN, interpreter : BOOLEAN, copy : BOOLEAN]

\* _quantize_from_tflite: output_path, or None after "Quantization failed"
quantize_from_tflite(in) ==
    IF in.tensorflow /\ in.read /\ in.interpreter /\ in.copy
    THEN StripFloat32(in.stem) \o "_int8.tflite"
    ELSE NoPath

\* the try block of quantize_int8 runs to its end
TryCompletes(in) == in.tensorflow /\ in.find # "raises" /\ in.from_saved_model

\* quantize_int8: the try block ends without a return statement, the except block
\* returns the fallback's result
quantize_int8(in) ==
    IF TryCompletes(in) THEN NoPath ELSE quantize_from_tflite(in)

InitQuantize ==
    /\ LoopInit /\ script = "test_inference" /\ owed = {} /\ PairIdle /\ CliIdle
    /\ fn_pc = "ready" /\ fn_in \in QuantizeInputs /\ fn_out = <<>>

QuantizeInt8 ==
    /\ fn_pc = "ready"
    /\ fn_out' = quantize_int8(fn_in)
    /\ fn_pc' = "called"
    /\ UNCHANGED <<loop_vars, owed, fn_in, pair_vars, cli_vars>>

SpecQuantize == InitQuantize /\ [][QuantizeInt8]_vars

-----------------------------------------------------------------------------
(* y2m/cli.py: main *)

EXIT_SUCCESS == 0
EXIT_VALIDATION_ERROR == 1
EXIT_CONVERSION_ERROR == 2
EXIT_QUANTIZATION_ERROR == 3

\* Path(parsed_args.weights).stem
WeightsStem == "best"
\* what model.names of the loaded model can hold
ModelClassNames == {<<>>, <<"drowsy", "notdrowsy">>}
\* how a call into ultralytics can end
Outcomes == {"ok", "ImportError", "Exception"}

\* the parsed arguments, with the weights file they name and the names in it
CliArgs ==
    [weights : Files, quantize : BOOLEAN, cleanup : BOOLEAN, names : ModelClassNames]

\* mutant: the flag is written as true whatever the Int8 export returned
QuantizedAlways(path) == TRUE

\* int8_path is not None
Quantized(path) == path # NoPath

\* create_metadata: the dictionary dumped to metadata.json; the keys class_names and
\* num_classes are written only when has_class_names
create_metadata(suffix, names, quantized) ==
    [written |-> TRUE,
     model_name |-> WeightsStem \o suffix,
     quantized |-> quantized,
     float32 |-> WeightsStem \o "_float32.tflite",
     int8 |-> IF quantized THEN WeightsStem \o "_int8.tflite" ELSE NoPath,
     has_class_names |-> names # <<>>,
     class_names |-> names,
     num_classes |-> Len(names)]

\* Step 1: validate_model_path, return EXIT_VALIDATION_ERROR if not valid
cli_validate ==
    /\ cli_pc = "validate"
    /\ steps' = Append(steps, "validate")
    /\ IF validate_model_path(cli_args.weights)[1]
       THEN /\ cli_pc' = "mkdir"
            /\ UNCHANGED <<exit_code, failures>>
       ELSE /\ cli_pc' = "done"
            /\ exit_code' = EXIT_VALIDATION_ERROR
            /\ failures' = failures \cup {"validate"}
    /\ UNCHANGED <<loop_vars, owed, fn_vars, pair_vars, cli_args, tflite_path, int8_path,
                   metadata>>

\* Step 2: create_output_directory; an error of mkdir is not caught
cli_create_output_directory(ok) ==
    /\ cli_pc = "mkdir"
    /\ steps' = Append(steps, "mkdir")
    /\ IF ok
       THEN cli_pc' = "load" /\ UNCHANGED failures
       ELSE cli_pc' = "raised" /\ failures' = failures \cup {"mkdir"}
    /\ UNCHANGED <<loop_vars, owed, fn_vars, pair_vars, cli_args, tflite_path, int8_path,
                   metadata, exit_code>>

\* Step 3: converter.load_model(), return EXIT_CONVERSION_ERROR if it returns False
cli_load_model(outcome) ==
    /\ cli_pc = "load"
    /\ steps' = Append(steps, "load")
    /\ IF outcome = "ok"
       THEN /\ cli_pc' = "export"
            /\ UNCHANGED <<exit_code, failures>>
       ELSE /\ cli_pc' = "done"
            /\ exit_code' = EXIT_CONVERSION_ERROR
            /\ failures' = failures \cup {"load"}
    /\ UNCHANGED <<loop_vars, owed, fn_vars, pair_vars, cli_args, tflite_path, int8_path,
                   metadata>>

\* converter.export_to_tflite(), return EXIT_CONVERSION_ERROR if it returns None
cli_export_to_tflite(outcome) ==
    /\ cli_pc = "export"
    /\ steps' = Append(steps, "export")
    /\ IF outcome = "ok"
       THEN /\ tflite_path' = WeightsStem \o "_float32.tflite"
            /\ cli_pc' = "quantize"
            /\ UNCHANGED <<exit_code, failures>>
       ELSE /\ tflite_path' = NoPath
            /\ cli_pc' = "done"
            /\ exit_code' = EXIT_CONVERSION_ERROR
            /\ failures' = failures \cup {"export"}
    /\ UNCHANGED <<loop_vars, owed, fn_vars, pair_vars, cli_args, int8_path, metadata>>

\* Step 4 with --quantize: quantize_with_ultralytics; None only logs a warning
cli_quantize(outcome) ==
    /\ cli_pc = "quantize"
    /\ cli_args.quantize
    /\ steps' = Append(steps, "quantize")
    /\ IF outcome = "ok"
       THEN int8_path' = WeightsStem \o "_int8.tflite" /\ UNCHANGED failures
       ELSE int8_path' = NoPath /\ failures' = failures \cup {"quantize"}
    /\ cli_pc' = "metadata"
    /\ UNCHANGED <<loop_vars, owed, fn_vars, pair_vars, cli_args, tflite_path, metadata,
                   exit_code>>

\* Step 4 without --quantize: int8_path stays None
cli_skip_quantize ==
    /\ cli_pc = "quantize"
    /\ ~cli_args.quantize
    /\ int8_path' = NoPath
    /\ cli_pc' = "metadata"
    /\ UNCHANGED <<loop_vars, owed, fn_vars, pair_vars, cli_args, tflite_path, metadata,
                   exit_code, steps, failures>>

\* create_metadata(..., quantized=int8_path is not None); an error of open or
\* json.dump is not caught
cli_create_metadata(ok) ==
    /\ cli_pc = "metadata"
    /\ steps' = Append(steps, "metadata")
    /\ IF ok
       THEN /\ metadata' = create_metadata(cli_args.weights.suffix, cli_args.names,
                                           Quantized(int8_path))
            /\ cli_pc' = "cleanup"
            /\ UNCHANGED failures
       ELSE /\ cli_pc' = "raised"
            /\ failures' = failures \cup {"metadata"}
            /\ UNCHANGED metadata
    /\ UNCHANGED <<loop_vars, owed, fn_vars, pair_vars, cli_args, tflite_path, int8_path,
                   exit_code>>

\* cleanup_intermediate_files when --cleanup, the summary, return EXIT_SUCCESS
cli_cleanup ==
    /\ cli_pc = "cleanup"
    /\ steps' = IF cli_args.cleanup THEN Append(steps, "cleanup") ELSE steps
    /\ exit_code' = EXIT_SUCCESS
    /\ cli_pc' = "done"
    /\ UNCHANGED <<loop_vars, owed, fn_vars, pair_vars, cli_args, tflite_path, int8_path,
                   metadata, failures>>

InitCli ==
    /\ LoopInit /\ script = "test_inference" /\ owed = {} /\ FnIdle /\ PairIdle
    /\ cli_pc = "validate"
    /\ cli_args \in CliArgs
    /\ tflite_path = NoPath
    /\ int8_path = NoPath
    /\ metadata = NoMetadata
    /\ exit_code = -1
    /\ steps = <<>>
    /\ failures = {}

main ==
    \/ cli_validate
    \/ \E ok \in BOOLEAN : cli_create_output_directory(ok)
    \/ \E outcome \in Outcomes : cli_load_model(outcome)
    \/ \E outcome \in Outcomes : cli_export_to_tflite(outcome)
    \/ \E outcome \in {"ok", "Exception"} : cli_quantize(outcome)
    \/ cli_skip_quantize
    \/ \E ok \in BOOLEAN : cli_create_metadata(ok)
    \/ cli_cleanup

SpecCli == InitCli /\ [][main]_vars

-----------------------------------------------------------------------------
(* Properties *)

\* a step that processes a frame
Processed == inference_count' = inference_count + 1

Count(history, name) == Cardinality({i \in 1..Len(history) : history[i][1] = name})

\* C1: at every processed frame where the window is non-empty and the frame counter is
\* a multiple of 5, a state report is emitted if and only if the state derived from the
\* window differs from last_reported_state (as it was before the frame) or the counter
\* is a multiple of 30; an emitted state report carries the derived state, and
\* last_reported_state equals the reported state right afterwards.
C1_ReportingRule ==
    [][(Processed /\ Len(detection_history') >= 1 /\ inference_count' % 5 = 0)
         => /\ (report'.kind = "state")
                 <=> (\/ DerivedState(detection_history') # last_reported_state
                      \/ inference_count' % 30 = 0)
            /\ report'.kind = "state"
                 => /\ report'.frame = inference_count'
                    /\ report'.state = DerivedState(detection_history')
                    /\ last_reported_state' = report'.state]_vars

\* frame 10 reports a change to ALERT; frame 15 of the same kind of run can stay silent
C1_Witness ==
    /\ inference_count = 10 /\ report.kind = "state"
    /\ report.state = "ALERT" /\ last_reported_state = "ALERT"

\* C2: the window never holds more than 5 entries, and after a run of at least 5
\* consecutive non-empty frames it is exactly the 5 most recent detections in arrival
\* order.
C2_WindowHoldsLastFive ==
    /\ Len(detection_history) <= 5
    /\ Len(recent) = 5 => detection_history = recent

\* seven frames in, after an eviction, with a window whose ends differ
C2_Witness ==
    /\ inference_count >= 7 /\ Len(recent) = 5
    /\ detection_history[1] # detection_history[5]
    /\ detection_history[1] = <<"class_2", 50>>

\* C5: a processed frame with no detection leaves the window as it was; the window
\* changes only on a frame that carries a detection.
C5_EmptyFrameKeepsWindow ==
    [][Processed =>
         /\ current_detection' = None => detection_history' = detection_history
         /\ detection_history' # detection_history => current_detection' # None]_vars

\* an empty frame arrives while the window holds detections
C5_Witness ==
    /\ inference_count >= 2 /\ current_detection = None /\ Len(detection_history) >= 1

\* C6: at a processed frame where the window is empty, a "no detections" report is
\* emitted and last_reported_state is left alone when the counter is a multiple of 30,
\* and nothing is emitted when it is not.
C6_NoDetectionHeartbeat ==
    [][(Processed /\ Len(detection_history') = 0)
         => /\ inference_count' % 30 = 0
                 => /\ report'.kind = "nodetection"
                    /\ report'.frame = inference_count'
                    /\ last_reported_state' = last_reported_state
            /\ inference_count' % 30 # 0 => report'.kind = "none"]_vars

C6_Witness ==
    /\ inference_count = 30 /\ Len(detection_history) = 0
    /\ report.kind = "nodetection" /\ last_reported_state = NoState

\* C7: the latest processed frame, when its counter is a positive multiple of 30,
\* emitted a report whatever the state: a state report when the window is non-empty,
\* a "no detections" report when it is empty.
C7_Heartbeat ==
    (inference_count > 0 /\ inference_count % 30 = 0)
        => /\ report.frame = inference_count
           /\ Len(detection_history) >= 1 => report.kind = "state"
           /\ Len(detection_history) = 0 => report.kind = "nodetection"

\* frame 30 of the scenario stream: ALERT was reported at frame 20 and is unchanged
C7_Witness ==
    /\ inference_count = 30 /\ on_stream
    /\ report.kind = "state" /\ report.state = "ALERT"

\* C8: a processed frame whose counter is not a multiple of 5 emits no report and
\* leaves last_reported_state as it was, so a report is only ever emitted at a multiple
\* of 5.
C8_SilentOffCadence ==
    [][Processed =>
         /\ inference_count' % 5 # 0
              => report'.kind = "none" /\ last_reported_state' = last_reported_state
         /\ report'.kind # "none" => report'.frame % 5 = 0]_vars

\* frame 13: the window has turned to a state other than the one last reported
C8_Witness ==
    /\ inference_count = 13 /\ report.kind = "none"
    /\ last_reported_state # NoState
    /\ DerivedState(detection_history) # last_reported_state

-----------------------------------------------------------------------------
(* Properties of the functions *)

RECURSIVE TotalUpTo(_, _)
TotalUpTo(history, n) == IF n = 0 THEN 0 ELSE history[n][2] + TotalUpTo(history, n - 1)

\* C3: the state of a window of 1 to 5 entries is the majority vote: DROWSY when the
\* entries labelled drowsy outnumber those labelled notdrowsy, ALERT when it is the
\* other way round, UNCERTAIN when the counts are equal; the average confidence is the
\* total over all entries divided by their number.  The first example gives 3D/2A,
\* DROWSY and 0.79, the second UNCERTAIN.
C3_MajorityVote ==
    fn_pc = "called" =>
        LET d == Count(fn_in, "drowsy")
            a == Count(fn_in, "notdrowsy")
        IN  /\ fn_out.drowsy_count = d /\ fn_out.notdrowsy_count = a
            /\ d > a => fn_out.current_state = "DROWSY"
            /\ a > d => fn_out.current_state = "ALERT"
            /\ d = a => fn_out.current_state = "UNCERTAIN"
            /\ fn_out.avg_conf = <<TotalUpTo(fn_in, Len(fn_in)), Len(fn_in)>>
            /\ fn_in = Example1
                 => /\ d = 3 /\ a = 2 /\ fn_out.current_state = "DROWSY"
                    /\ fn_out.avg_conf[1] = 79 * fn_out.avg_conf[2]
            /\ fn_in = Example2
                 => /\ d = 1 /\ a = 1 /\ fn_out.current_state = "UNCERTAIN"

C3_Witness ==
    /\ fn_pc = "called" /\ fn_in = Example1
    /\ fn_out.current_state = "DROWSY" /\ fn_out.avg_conf = <<395, 5>>

\* C4: the kept detection of a list of raw detections is the first one of greatest
\* confidence, and none is kept when the list is empty.
C4_FirstOfHighest ==
    fn_pc = "called" =>
        /\ fn_in = <<>> => fn_out = None
        /\ fn_in # <<>> =>
             \E i \in 1..Len(fn_in) :
                /\ fn_out = fn_in[i]
                /\ \A j \in 1..Len(fn_in) : fn_in[j][2] <= fn_in[i][2]
                /\ \A j \in 1..(i - 1) : fn_in[j][2] < fn_in[i][2]

\* three detections, the first and the last share the greatest confidence
C4_Witness ==
    /\ fn_pc = "called" /\ Len(fn_in) = 3
    /\ fn_in[1] = <<"drowsy", 90>> /\ fn_in[2] = <<"class_2", 50>>
    /\ fn_in[3] = <<"notdrowsy", 90>>
    /\ fn_out = <<"drowsy", 90>>

-----------------------------------------------------------------------------
(* Properties of what gets reported *)

\* C9 as stated: every state the window enters is carried by a report at that frame or
\* later, at the latest at the next frame whose counter is a multiple of 30; so at
\* such a frame nothing is owed.
C9_NoTransitionMissed ==
    inference_count % 30 = 0 => owed = {}

\* C9 amended: after every frame whose counter is a multiple of 5 and whose window is
\* non-empty, last_reported_state is the state derived from the window; and at a
\* multiple of 30 the state then derived is not owed a report.
C9_LastingTransitionReported ==
    /\ (inference_count > 0 /\ inference_count % 5 = 0 /\ Len(detection_history) >= 1)
         => last_reported_state = DerivedState(detection_history)
    /\ inference_count % 30 = 0 => DerivedState(detection_history) \notin owed

\* frame 30, reported, while a state entered and left in between was never reported
C9_Witness ==
    /\ inference_count = 30 /\ report.kind = "state" /\ owed # {}

\* C10 as stated: a report at every frame whose counter is a multiple of 5 while the
\* window is non-empty; on the scenario stream DROWSY at 5, 10 and 15, ALERT at 20
\* and 30.
C10_ReportEveryFive ==
    /\ (inference_count > 0 /\ inference_count % 5 = 0 /\ Len(detection_history) >= 1)
         => report.kind = "state"
    /\ (on_stream /\ inference_count \in {5, 10, 15})
         => report.kind = "state" /\ report.state = "DROWSY"
    /\ (on_stream /\ inference_count \in {20, 30})
         => report.kind = "state" /\ report.state = "ALERT"

\* C10 amended: a state report off the multiples of 30 is only emitted on a change of
\* the state against last_reported_state; on the scenario stream the reports are
\* DROWSY at 5, ALERT at 20 and ALERT at 30, and frames 10, 15 and 25 are silent.
C10_ReportOnChangeOrHeartbeat ==
    [][Processed =>
         /\ (report'.kind = "state" /\ inference_count' % 30 # 0)
              => report'.state # last_reported_state
         /\ on_stream'
              => /\ (report'.kind = "state") <=> (inference_count' \in {5, 20, 30})
                 /\ report'.kind \in {"state", "none"}
                 /\ inference_count' = 5 => report'.state = "DROWSY"
                 /\ inference_count' \in {20, 30} => report'.state = "ALERT"]_vars

\* frame 10 of the scenario stream: DROWSY again, nothing printed
C10_Witness ==
    /\ on_stream /\ inference_count = 10
    /\ report.kind = "none" /\ last_reported_state = "DROWSY"

-----------------------------------------------------------------------------
(* Properties of the loop, continued *)

\* C11 as stated: a processed frame without detection leaves last_reported_state as
\* it was unless the frame counter is a multiple of 30.
C11_EmptyFrameKeepsLastReported ==
    [][(Processed /\ current_detection' = None /\ inference_count' % 30 # 0)
         => last_reported_state' = last_reported_state]_vars

\* C11 amended: a processed frame without detection changes last_reported_state only
\* when the frame counter is a multiple of 5 and the window is non-empty, by a state
\* report, and then to the state derived from the (unchanged) window.
C11_EmptyFrameChangesOnlyOnFive ==
    [][(Processed /\ current_detection' = None
          /\ last_reported_state' # last_reported_state)
         => /\ inference_count' % 5 = 0
            /\ Len(detection_history') >= 1
            /\ detection_history' = detection_history
            /\ report'.kind = "state"
            /\ last_reported_state' = DerivedState(detection_history')]_vars

\* frame 15 carries no detection and reports a state: it differs from the last reported
C11_Witness ==
    /\ inference_count = 15 /\ current_detection = None
    /\ report.kind = "state" /\ last_state_emitted = report.state

\* C12 as stated: last_reported_state is the state of the latest report of any kind,
\* a "no detections" report counting as NO_DETECTION, and none exactly while no
\* report has been emitted.
C12_LastOfAnyReport ==
    last_reported_state = last_emitted

\* C12 amended: last_reported_state is the state of the latest state report, none
\* exactly while no state report has been emitted, and never NO_DETECTION: a
\* "no detections" report is not remembered.
C12_LastOfStateReports ==
    /\ last_reported_state = last_state_emitted
    /\ last_reported_state \in {NoState, "DROWSY", "ALERT", "UNCERTAIN"}
    /\ report.kind = "state" => last_reported_state = report.state
    /\ report.kind = "nodetection" => last_reported_state = NoState

\* frame 30 printed "no detections" and last_reported_state is still None
C12_Witness ==
    /\ inference_count = 30 /\ report.kind = "nodetection"
    /\ last_emitted = "NO_DETECTION" /\ last_reported_state = NoState

\* C14: inference_count starts at 0, never decreases, grows by exactly 1 on every
\* iteration that attempts a detection, whatever the frame carries and whatever is
\* printed, so it equals the number of frames processed; the total printed when the
\* loop ends is that number.
C14_CountsEveryFrame ==
    /\ inference_count = 0
    /\ [][/\ inference_count' >= inference_count
          /\ frames' = frames + 1 => inference_count' = inference_count + 1
          /\ frames' = frames => inference_count' = inference_count
          /\ inference_count' = frames'
          /\ pc' = "done" => ran' = frames'
          /\ pc' = "loop" => ran' = -1]_vars

\* the loop ended after seven frames, the last one without detection and silent
C14_Witness ==
    /\ pc = "done" /\ ran = 7 /\ frames = 7
    /\ current_detection = None /\ report.kind = "none"

\* C19: the window is non-empty from the first detection on, so a "no detections"
\* report is only emitted before the first detection and never after a state report.
C19_WindowNeverEmptiesAgain ==
    /\ detected <=> Len(detection_history) >= 1
    /\ report.kind = "nodetection" => ~detected /\ last_state_emitted = NoState
    /\ last_emitted = "NO_DETECTION" => last_state_emitted = NoState

\* one detection at the start, empty frames up to frame 30: a state report, not
\* "no detections"
C19_Witness ==
    /\ inference_count = 30 /\ Len(detection_history) = 1 /\ current_detection = None
    /\ report.kind = "state"

-----------------------------------------------------------------------------
(* Properties of the functions, continued *)

\* the entries of a window whose label is neither drowsy nor notdrowsy
Others(history) ==
    {i \in 1..Len(history) : history[i][1] \notin {"drowsy", "notdrowsy"}}

\* C13: a window entry labelled neither drowsy nor notdrowsy (class_2) is classified
\* like any other, without error: it adds to neither count and its confidence is part
\* of the average; a window of such entries only is UNCERTAIN with counts 0 and 0.
C13_OtherLabelsCountForNeither ==
    /\ fn_pc = "ready" => ENABLED NextClassify
    /\ fn_pc = "called" =>
         /\ fn_out.drowsy_count + fn_out.notdrowsy_count + Cardinality(Others(fn_in))
              = Len(fn_in)
         /\ fn_out.avg_conf[2] = Len(fn_in)
         /\ fn_out.avg_conf[1] = TotalUpTo(fn_in, Len(fn_in))
         /\ Cardinality(Others(fn_in)) = Len(fn_in)
              => /\ fn_out.drowsy_count = 0 /\ fn_out.notdrowsy_count = 0
                 /\ fn_out.current_state = "UNCERTAIN"

\* two entries labelled class_2: UNCERTAIN, average (0.5 + 0.9) / 2
C13_Witness ==
    /\ fn_pc = "called"
    /\ fn_in = <<(<<"class_2", 50>>), (<<"class_2", 90>>)>>
    /\ fn_out.current_state = "UNCERTAIN" /\ fn_out.avg_conf = <<140, 2>>

-----------------------------------------------------------------------------
(* Properties of the pair of loops *)

\* C18: fed the same raw detections frame by frame, the two loops have the same frame
\* counter, the same window and the same last_reported_state after every frame, and
\* print the same report (or nothing) at every frame.
C18_LoopsAgree ==
    /\ tf_inference_count = inference_count
    /\ tf_detection_history = detection_history
    /\ tf_last_reported_state = last_reported_state
    /\ tf_report = report

\* frame 20: both report a state over a window that has evicted entries
C18_Witness ==
    /\ inference_count = 20 /\ tf_inference_count = 20
    /\ Len(tf_detection_history) = 5 /\ tf_detection_history[1] # tf_detection_history[5]
    /\ report.kind = "state" /\ tf_report.kind = "state"

-----------------------------------------------------------------------------
(* Properties of the conversion pipeline's functions *)

\* the checks of validate_model_path in their order, with the code of each
CheckCodes ==
    <<ERR_FILE_NOT_FOUND, ERR_INVALID_EXTENSION, ERR_FILE_EMPTY, ERR_READ_PERMISSION>>

ChecksPassed(file) ==
    <<file.exists,
      file.suffix \in {".pt", ".PT", ".Pt", ".pT"},
      file.size > 0,
      file.readable>>

\* C16: validate_model_path returns (True, None) exactly when the file exists, has the
\* extension .pt in any case, is not empty and is readable; otherwise (False, code) with
\* the code of the first check that fails in the order not found, extension, empty,
\* permission.
C16_FirstFailingCheck ==
    fn_pc = "called" =>
        LET passed == ChecksPassed(fn_in)
            failing == {k \in 1..4 : ~passed[k]}
        IN  /\ (fn_out = <<TRUE, NoCode>>) <=> (failing = {})
            /\ failing # {} =>
                 \E k \in failing :
                    /\ \A j \in failing : k <= j
                    /\ fn_out = <<FALSE, CheckCodes[k]>>

\* an existing, empty, unreadable .PT file: the empty check comes first
C16_Witness ==
    /\ fn_pc = "called"
    /\ fn_in = [exists |-> TRUE, suffix |-> ".PT", size |-> 0, readable |-> FALSE]
    /\ fn_out = <<FALSE, ERR_FILE_EMPTY>>

\* C17: quantize_int8 returns a path unless quantization failed: whenever its try
\* block runs to the end without an error, or the fallback does, the result is a path.
C17_PathUnlessFailed ==
    fn_pc = "called" =>
        ((TryCompletes(fn_in) \/ quantize_from_tflite(fn_in) # NoPath) => fn_out # NoPath)

-----------------------------------------------------------------------------
(* Properties of main *)

\* C15: whenever validation, model loading, float32 export or, with --quantize, Int8
\* quantization fails, main returns a value other than 0.
C15_FailureExitsNonZero ==
    (cli_pc = "done" /\ failures \cap {"validate", "load", "export", "quantize"} # {})
        => exit_code # EXIT_SUCCESS

\* the order of the steps of a run with the given arguments
StepOrder(args) ==
    <<"validate", "mkdir", "load", "export">>
    \o (IF args.quantize THEN <<"quantize">> ELSE <<>>)
    \o <<"metadata">>
    \o (IF args.cleanup THEN <<"cleanup">> ELSE <<>>)

IsPrefix(s, t) == Len(s) <= Len(t) /\ SubSeq(t, 1, Len(s)) = s

StepsRun == {steps[k] : k \in 1..Len(steps)}

\* C20: the steps of main run in the order validate, create output directory, load,
\* export, quantize (with --quantize), metadata, clean up (with --cleanup); a failed
\* validation, load or export is the last step of the run; a run that returns 0 ran
\* them all; and the metadata's quantized flag is true exactly when --quantize was given
\* and the Int8 export returned a path.
C20_PipelineOrder ==
    cli_pc # "idle" =>
        /\ IsPrefix(steps, StepOrder(cli_args))
        /\ \A f \in failures \cap {"validate", "load", "export"} :
              /\ cli_pc = "done"
              /\ steps[Len(steps)] = f
              /\ ~metadata.written
              /\ exit_code # EXIT_SUCCESS
        /\ (cli_pc = "done" /\ exit_code = EXIT_SUCCESS) => steps = StepOrder(cli_args)
        /\ metadata.written =>
              (metadata.quantized <=>
                 (cli_args.quantize /\ "quantize" \in StepsRun /\ "quantize" \notin failures))

\* a complete run with --quantize and --cleanup whose Int8 export returned a path
C20_Witness ==
    /\ cli_pc = "done"
    /\ steps = <<"validate", "mkdir", "load", "export", "quantize", "metadata", "cleanup">>
    /\ metadata.quantized
    /\ metadata.int8 = "best_int8.tflite"

====
